---- MODULE Spec2Model ----
(***************************************************************************)
(* Model of app/parse.py: a sequential crawler that walks the listing      *)
(* pages of a quote site, fetches the biography of every author it has not *)
(* seen yet, and writes the quotes and the authors to two CSV files.       *)
(*                                                                         *)
(* Text is a sequence of one-character strings, so that str.strip() and    *)
(* str(list) are computed rather than assumed.  URLs are strings and are   *)
(* resolved the way the code does it, by concatenation with BASE_URL.      *)
(***************************************************************************)
EXTENDS Naturals, Sequences, FiniteSets, TLC

VARIABLES
    site,                    \* which web site is behind BASE_URL (fixed per run)
    output_quotes_csv_path,  \* the argument of main
    fs,                      \* the file system: path -> [exists, rows]
    fs0,                     \* the file system when main was called
    pc,                      \* the statement main has reached
    error,                   \* the exception that ended the run, or "none"
    soup,                    \* the listing page being walked
    idx,                     \* position of the for loop over .quote blocks
    quotes_list,             \* get_single_page_quotes' local result
    all_quotes,              \* get_all_quotes_and_authors' accumulator
    authors,                 \* the registry, a dict in insertion order
    next_button,             \* soup.select_one("li.next > a")
    row,                     \* position of the for loop of a save_* function
    requests_log,            \* every requests.get call, in order
    bio_calls,               \* every parse_author_bio call, in order
    opens                    \* every open() call of a save_* function, in order

vars == <<site, output_quotes_csv_path, fs, fs0, pc, error, soup, idx,
          quotes_list, all_quotes, authors, next_button, row,
          requests_log, bio_calls, opens>>

\* The crawl gives up after this many listing-page fetches (model bound).
MaxVisits == 5

BASE_URL == "https://quotes.toscrape.com/"
OUTPUT_QUOTES_PATH == "quotes.csv"
OUTPUT_AUTHORS_PATH == "authors.csv"

Paths == {OUTPUT_QUOTES_PATH, OUTPUT_AUTHORS_PATH}

-----------------------------------------------------------------------------
(* Text helpers                                                            *)

RECURSIVE lstrip(_)
lstrip(s) == IF s # <<>> /\ Head(s) = " " THEN lstrip(Tail(s)) ELSE s

RECURSIVE rstrip(_)
rstrip(s) ==
    IF s # <<>> /\ s[Len(s)] = " " THEN rstrip(SubSeq(s, 1, Len(s) - 1)) ELSE s

\* str.strip()
strip(s) == rstrip(lstrip(s))

\* str(list_of_str), as csv.writer renders a non-string cell
RECURSIVE py_join(_)
py_join(tags) ==
    IF tags = <<>> THEN <<>>
    ELSE <<"'">> \o Head(tags) \o <<"'">>
         \o (IF Len(tags) > 1 THEN <<",", " ">> ELSE <<>>)
         \o py_join(Tail(tags))

py_str(tags) == <<"[">> \o py_join(tags) \o <<"]">>

RECURSIVE MapStrip(_)
MapStrip(ts) == IF ts = <<>> THEN <<>> ELSE <<strip(Head(ts))>> \o MapStrip(Tail(ts))

-----------------------------------------------------------------------------
(* Documents: what BeautifulSoup's selectors find in a page                *)

NoElem == [present |-> FALSE, text |-> <<>>]
Elem(t) == [present |-> TRUE, text |-> t]
NoLink == [present |-> FALSE, has_href |-> FALSE, href |-> ""]
Link(h) == [present |-> TRUE, has_href |-> TRUE, href |-> h]
BareLink == [present |-> TRUE, has_href |-> FALSE, href |-> ""]

\* a .quote block: .text, .author, the .tag elements, the first <a>
Block(text, author, tags, a) ==
    [text |-> Elem(text), author |-> Elem(author), tags |-> tags, a |-> a]

Listing(quotes, next) ==
    [quotes |-> quotes, next |-> next, title |-> NoElem, description |-> NoElem]
BioPage(title, description) ==
    [quotes |-> <<>>, next |-> NoLink,
     title |-> Elem(title), description |-> Elem(description)]
\* the body of a non-success response: none of the selectors matches
ErrorDoc ==
    [quotes |-> <<>>, next |-> NoLink, title |-> NoElem, description |-> NoElem]

nA == <<"A">>
nB == <<"B">>
nC == <<"C">>
nApad == <<" ", "A">>
bioA == <<"b", "A">>
bioB == <<"b", "B">>
bioC == <<"b", "C">>
tLife == <<"l", "i", "f", "e">>
tWit == <<" ", "w", "i", "t", " ">>

Bios ==
    (BASE_URL \o "/author/A" :> BioPage(<<"A", " ">>, <<" ">> \o bioA))
 @@ (BASE_URL \o "/author/A-alt" :> BioPage(<<"A", "2">>, bioA))
 @@ (BASE_URL \o "/author/B" :> BioPage(nB, bioB))
 @@ (BASE_URL \o "/author/C" :> BioPage(nC, bioC))

qA1 == Block(<<"1">>, nA, <<tLife>>, Link("/author/A"))
qA2 == Block(<<"2">>, nA, <<>>, Link("/author/A-alt"))
qB1 == Block(<<"3">>, nB, <<tWit, tLife>>, Link("/author/B"))
qB2 == Block(<<"4">>, nB, <<>>, Link("/author/B"))
qC1 == Block(<<"5">>, nC, <<tLife>>, Link("/author/C"))
qD1 == Block(<<"6">>, <<"D">>, <<>>, Link("/author/D"))
qApad == Block(<<"7">>, nApad, <<>>, Link("/author/A"))
qA_bare == Block(<<"8">>, nA, <<>>, BareLink)
qB_nolink == Block(<<"9">>, nB, <<>>, NoLink)
qC_notext == [qC1 EXCEPT !.text = NoElem]

Sites == {"two_pages", "empty_middle", "cycle", "bare_link", "no_link",
          "alias_names", "broken_next", "dead_bio"}

\* url -> document, for every url the site serves with status 200
Web(s) ==
    Bios @@
    CASE s = "two_pages" ->
           (BASE_URL :> Listing(<<qA1, qB1>>, Link("/page/2/")))
        @@ (BASE_URL \o "/page/2/" :> Listing(<<qB2, qC1>>, NoLink))
      [] s = "empty_middle" ->
           (BASE_URL :> Listing(<<qA1, qA2>>, Link("/page/2/")))
        @@ (BASE_URL \o "/page/2/" :> Listing(<<>>, Link("/page/3/")))
        @@ (BASE_URL \o "/page/3/" :> Listing(<<qB1, qA1>>, NoLink))
      [] s = "cycle" ->
           (BASE_URL :> Listing(<<qA1>>, Link("/page/2/")))
        @@ (BASE_URL \o "/page/2/" :> Listing(<<qB1>>, Link("/page/3/")))
        @@ (BASE_URL \o "/page/3/" :> Listing(<<qA2, qC1>>, Link("/page/2/")))
      [] s = "bare_link" ->
           (BASE_URL :> Listing(<<qA1, qA_bare, qB1>>, Link("/page/2/")))
        @@ (BASE_URL \o "/page/2/" :> Listing(<<qC1>>, NoLink))
      [] s = "no_link" ->
           (BASE_URL :> Listing(<<qB_nolink, qA1>>, Link("/page/2/")))
        @@ (BASE_URL \o "/page/2/" :> Listing(<<qC_notext>>, NoLink))
      [] s = "alias_names" ->
           (BASE_URL :> Listing(<<qA1, qApad>>, NoLink))
      [] s = "broken_next" ->
           (BASE_URL :> Listing(<<>>, BareLink))
      [] s = "dead_bio" ->
           (BASE_URL :> Listing(<<qA1, qD1>>, NoLink))

-----------------------------------------------------------------------------
(* requests.get(url): the network either raises, or returns a response     *)
(* whose .content the code reads without looking at the status             *)

Net == {"up", "5xx", "down"}

\* a variant that swallows the exception and goes on with an empty body
requests_get_swallow(url, net, web) ==
    IF net = "up" /\ url \in DOMAIN web
      THEN [raised |-> FALSE, status |-> 200, content |-> web[url]]
    ELSE [raised |-> FALSE,
          status |-> IF net = "down" THEN 0 ELSE IF net = "5xx" THEN 503 ELSE 404,
          content |-> ErrorDoc]

requests_get(url, net, web) ==
    IF net = "down"
      THEN [raised |-> TRUE, status |-> 0, content |-> ErrorDoc]
    ELSE IF net = "5xx"
      THEN [raised |-> FALSE, status |-> 503, content |-> ErrorDoc]
    ELSE IF url \in DOMAIN web
      THEN [raised |-> FALSE, status |-> 200, content |-> web[url]]
    ELSE [raised |-> FALSE, status |-> 404, content |-> ErrorDoc]

LogEntry(kind, url, resp) == [kind |-> kind, url |-> url, status |-> resp.status]

-----------------------------------------------------------------------------
(* Quote extraction, author extraction, the registry                       *)

\* select_one(".text") / select_one(".author") return None on a block
\* without the element, and None.text raises AttributeError
can_parse_quote(quote_soup) == quote_soup.text.present /\ quote_soup.author.present

parse_single_quote(quote_soup) ==
    [text |-> quote_soup.text.text,
     author |-> quote_soup.author.text,
     tags |-> MapStrip(quote_soup.tags)]

can_parse_bio(author_soup) ==
    author_soup.title.present /\ author_soup.description.present

\* the Author that parse_author_bio builds from the fetched page
parse_author_page(author_soup) ==
    [name |-> strip(author_soup.title.text),
     bio |-> strip(author_soup.description.text)]

Keys(registry) == {registry[i].key : i \in DOMAIN registry}

\* authors[key] = value on a dict that keeps insertion order
dict_set(registry, key, value) ==
    IF key \in Keys(registry)
      THEN [i \in DOMAIN registry |->
              IF registry[i].key = key
                THEN [key |-> key, value |-> value] ELSE registry[i]]
      ELSE Append(registry, [key |-> key, value |-> value])

\* quote_soup.select_one("a")["href"] is evaluated for every block, before
\* the registry is consulted
\* (variant: the href is read only when the author is new)
href_raises_lazy(quote_soup, registry) ==
    /\ quote_soup.author.text \notin Keys(registry)
    /\ ~(quote_soup.a.present /\ quote_soup.a.has_href)
href_raises(quote_soup, registry) ==
    ~(quote_soup.a.present /\ quote_soup.a.has_href)

href_error(a) == IF a.present THEN "KeyError" ELSE "TypeError"

\* if quote.author not in authors
\* (variant: the registry is not consulted)
always_new_author(name, registry) == TRUE
is_new_author(name, registry) == name \notin Keys(registry)

\* the key of authors[quote.author] = ...
\* (variant: the entry is stored under the name found on the bio page)
registry_key_from_bio(quote, author) == author.name
registry_key(quote, author) == quote.author

\* One iteration of the for loop of get_single_page_quotes: the exception it
\* raises (or "none"), the requests it made, the parse_author_bio calls it
\* made, the registry after it and the quotes it appended.
WalkStep(quote_soup, registry, net, web) ==
    LET stop(e, fetched, calls) ==
            [error |-> e, fetched |-> fetched, calls |-> calls,
             authors |-> registry, appended |-> <<>>]
    IN
    IF ~can_parse_quote(quote_soup) THEN stop("AttributeError", <<>>, <<>>)
    ELSE
    LET quote == parse_single_quote(quote_soup) IN
    IF href_raises(quote_soup, registry)
      THEN stop(href_error(quote_soup.a), <<>>, <<>>)
    ELSE IF ~is_new_author(quote.author, registry)
      THEN [error |-> "none", fetched |-> <<>>, calls |-> <<>>,
            authors |-> registry, appended |-> <<quote>>]
    ELSE
    LET url == BASE_URL \o quote_soup.a.href
        resp == requests_get(url, net, web)
        fetched == <<LogEntry("bio", url, resp)>>
        calls == <<[name |-> quote.author, url |-> url]>>
    IN
    IF resp.raised THEN stop("ConnectionError", fetched, calls)
    ELSE IF ~can_parse_bio(resp.content) THEN stop("AttributeError", fetched, calls)
    ELSE
    LET author == parse_author_page(resp.content) IN
        [error |-> "none", fetched |-> fetched, calls |-> calls,
         authors |-> dict_set(registry, registry_key(quote, author), author),
         appended |-> <<quote>>]

\* all_quotes.extend(...)
\* (variant: a quote equal to one already collected is dropped)
RECURSIVE extend_unique(_, _)
extend_unique(all, lst) ==
    IF lst = <<>> THEN all
    ELSE extend_unique(
            IF \E i \in DOMAIN all : all[i] = Head(lst) THEN all
            ELSE Append(all, Head(lst)),
            Tail(lst))
extend(all, lst) == all \o lst

\* next_button = soup.select_one("li.next > a"), after every page
\* (variant: line 84 left out, next_button keeps the first page's link)
select_next_once(doc) == IF next_button.present THEN next_button ELSE doc.next
select_next(doc) == doc.next

ListingFetches == SelectSeq(requests_log, LAMBDA e : e.kind = "listing")

\* while next_button:
\* (variant: a url already requested ends the loop)
next_button_seen ==
    /\ next_button.present
    /\ \A i \in DOMAIN requests_log :
          requests_log[i].url # BASE_URL \o next_button.href
next_button_truthy == next_button.present

-----------------------------------------------------------------------------
(* Serialisation                                                           *)

Io == {"ok", "fail"}

QUOTES_HEADER == <<<<"t", "e", "x", "t">>, <<"a", "u", "t", "h", "o", "r">>,
                   <<"t", "a", "g", "s">>>>
AUTHORS_HEADER == <<<<"n", "a", "m", "e">>, <<"b", "i", "o">>>>

quote_row(quote) == <<quote.text, quote.author, py_str(quote.tags)>>
author_row(author) == <<author.name, author.bio>>

\* open(path, mode="w"): the file is created or truncated
open_w(files, path) == [files EXCEPT ![path] = [exists |-> TRUE, rows |-> <<>>]]
\* writer.writerow(cells)
writerow(files, path, cells) ==
    [files EXCEPT ![path].rows = Append(@, cells)]

\* for quote in quotes: has the loop of save_quotes_to_csv run out
\* (variant: the loop stops one quote short)
quotes_loop_done_early == row + 1 > Len(all_quotes)
quotes_loop_done == row > Len(all_quotes)

authors_loop_done == row > Len(authors)

-----------------------------------------------------------------------------
(* The run                                                                 *)

AbsentFile == [exists |-> FALSE, rows |-> <<>>]
StaleFile == [exists |-> TRUE, rows |-> <<<<<<"o", "l", "d">>>>>>]

Init ==
    /\ site \in Sites
    /\ output_quotes_csv_path \in Paths
    /\ fs \in {[p \in Paths |-> AbsentFile], [p \in Paths |-> StaleFile]}
    /\ fs0 = fs
    /\ pc = "fetch_base"
    /\ error = "none"
    /\ soup = ErrorDoc
    /\ idx = 1
    /\ quotes_list = <<>>
    /\ all_quotes = <<>>
    /\ authors = <<>>
    /\ next_button = NoLink
    /\ row = 1
    /\ requests_log = <<>>
    /\ bio_calls = <<>>
    /\ opens = <<>>

\* get_all_quotes_and_authors, lines 70-73 and the call on line 75
FetchBase ==
    /\ pc = "fetch_base" /\ error = "none"
    /\ \E net \in Net :
         LET resp == requests_get(BASE_URL, net, Web(site)) IN
         /\ requests_log' = Append(requests_log, LogEntry("listing", BASE_URL, resp))
         /\ IF resp.raised
              THEN /\ error' = "ConnectionError"
                   /\ UNCHANGED <<pc, soup>>
              ELSE /\ soup' = resp.content
                   /\ pc' = "walk"
                   /\ UNCHANGED error
    /\ idx' = 1
    /\ quotes_list' = <<>>
    /\ all_quotes' = <<>>
    /\ authors' = <<>>
    /\ UNCHANGED <<site, output_quotes_csv_path, fs, fs0, next_button, row, bio_calls, opens>>

\* get_single_page_quotes, one iteration of the loop on lines 58-64
ProcessQuote ==
    /\ pc = "walk" /\ error = "none"
    /\ idx <= Len(soup.quotes)
    /\ \E net \in Net :
         LET r == WalkStep(soup.quotes[idx], authors, net, Web(site)) IN
         /\ error' = r.error
         /\ requests_log' = requests_log \o r.fetched
         /\ bio_calls' = bio_calls \o r.calls
         /\ authors' = r.authors
         /\ quotes_list' = quotes_list \o r.appended
         /\ idx' = IF r.error = "none" THEN idx + 1 ELSE idx
    /\ UNCHANGED <<site, output_quotes_csv_path, fs, fs0, pc, soup, all_quotes,
                   next_button, row, opens>>

\* the loop is over: return quotes_list (65), all_quotes.extend (75, 83),
\* next_button = soup.select_one("li.next > a") (77, 84)
EndPage ==
    /\ pc = "walk" /\ error = "none"
    /\ idx > Len(soup.quotes)
    /\ all_quotes' = extend(all_quotes, quotes_list)
    /\ quotes_list' = <<>>
    /\ next_button' = select_next(soup)
    /\ pc' = "loop"
    /\ UNCHANGED <<site, output_quotes_csv_path, fs, fs0, error, soup, idx,
                   authors, row, requests_log, bio_calls, opens>>

\* the body of the while loop up to the call on line 83 (lines 78-82)
FetchNextPage ==
    /\ pc = "loop" /\ error = "none"
    /\ next_button_truthy
    /\ Len(ListingFetches) < MaxVisits
    /\ IF ~next_button.has_href
         THEN /\ error' = "KeyError"
              /\ UNCHANGED <<pc, soup, idx, requests_log>>
         ELSE \E net \in Net :
                LET next_page_url == BASE_URL \o next_button.href
                    resp == requests_get(next_page_url, net, Web(site))
                IN
                /\ requests_log' =
                      Append(requests_log, LogEntry("listing", next_page_url, resp))
                /\ IF resp.raised
                     THEN /\ error' = "ConnectionError"
                          /\ UNCHANGED <<pc, soup, idx>>
                     ELSE /\ soup' = resp.content
                          /\ idx' = 1
                          /\ pc' = "walk"
                          /\ UNCHANGED error
    /\ UNCHANGED <<site, output_quotes_csv_path, fs, fs0, quotes_list, all_quotes,
                   authors, next_button, row, bio_calls, opens>>

\* next_button is None: lines 86-87, back in main on line 116
CrawlReturn ==
    /\ pc = "loop" /\ error = "none"
    /\ ~next_button_truthy
    /\ pc' = "save_quotes"
    /\ UNCHANGED <<site, output_quotes_csv_path, fs, fs0, error, soup, idx,
                   quotes_list, all_quotes, authors, next_button, row,
                   requests_log, bio_calls, opens>>

Unwritten == <<site, output_quotes_csv_path, fs0, soup, idx, quotes_list,
               all_quotes, authors, next_button, requests_log, bio_calls>>

\* save_quotes_to_csv, lines 91-93
OpenQuotes ==
    /\ pc = "save_quotes" /\ error = "none"
    /\ \E io \in Io :
         IF io = "fail"
           THEN error' = "OSError" /\ UNCHANGED <<fs, pc>>
           ELSE /\ fs' = open_w(fs, output_quotes_csv_path)
                /\ pc' = "quotes_header"
                /\ UNCHANGED error
    /\ UNCHANGED row
    /\ opens' = Append(opens, [by |-> "save_quotes_to_csv", path |-> output_quotes_csv_path])
    /\ UNCHANGED Unwritten

\* line 94
WriteQuotesHeader ==
    /\ pc = "quotes_header" /\ error = "none"
    /\ \E io \in Io :
         IF io = "fail"
           THEN error' = "OSError" /\ UNCHANGED <<fs, pc, row>>
           ELSE /\ fs' = writerow(fs, output_quotes_csv_path, QUOTES_HEADER)
                /\ pc' = "quotes_rows"
                /\ row' = 1
                /\ UNCHANGED error
    /\ UNCHANGED <<Unwritten, opens>>

\* lines 95-97, one iteration
WriteQuoteRow ==
    /\ pc = "quotes_rows" /\ error = "none"
    /\ ~quotes_loop_done
    /\ \E io \in Io :
         IF io = "fail"
           THEN error' = "OSError" /\ UNCHANGED <<fs, row>>
           ELSE /\ fs' = writerow(fs, output_quotes_csv_path, quote_row(all_quotes[row]))
                /\ row' = row + 1
                /\ UNCHANGED error
    /\ UNCHANGED pc
    /\ UNCHANGED <<Unwritten, opens>>

\* the with block of save_quotes_to_csv is left (line 98); main goes on to 118
CloseQuotes ==
    /\ pc = "quotes_rows" /\ error = "none"
    /\ quotes_loop_done
    /\ \E io \in Io :
         IF io = "fail"
           THEN error' = "OSError" /\ UNCHANGED pc
           ELSE pc' = "save_authors" /\ UNCHANGED error
    /\ UNCHANGED <<fs, row>>
    /\ UNCHANGED <<Unwritten, opens>>

\* save_authors_to_csv, lines 105-107
OpenAuthors ==
    /\ pc = "save_authors" /\ error = "none"
    /\ \E io \in Io :
         IF io = "fail"
           THEN error' = "OSError" /\ UNCHANGED <<fs, pc>>
           ELSE /\ fs' = open_w(fs, OUTPUT_AUTHORS_PATH)
                /\ pc' = "authors_header"
                /\ UNCHANGED error
    /\ UNCHANGED row
    /\ opens' = Append(opens, [by |-> "save_authors_to_csv", path |-> OUTPUT_AUTHORS_PATH])
    /\ UNCHANGED Unwritten

\* line 108
WriteAuthorsHeader ==
    /\ pc = "authors_header" /\ error = "none"
    /\ \E io \in Io :
         IF io = "fail"
           THEN error' = "OSError" /\ UNCHANGED <<fs, pc, row>>
           ELSE /\ fs' = writerow(fs, OUTPUT_AUTHORS_PATH, AUTHORS_HEADER)
                /\ pc' = "authors_rows"
                /\ row' = 1
                /\ UNCHANGED error
    /\ UNCHANGED <<Unwritten, opens>>

\* lines 109-111, one iteration over authors.values()
WriteAuthorRow ==
    /\ pc = "authors_rows" /\ error = "none"
    /\ ~authors_loop_done
    /\ \E io \in Io :
         IF io = "fail"
           THEN error' = "OSError" /\ UNCHANGED <<fs, row>>
           ELSE /\ fs' = writerow(fs, OUTPUT_AUTHORS_PATH, author_row(authors[row].value))
                /\ row' = row + 1
                /\ UNCHANGED error
    /\ UNCHANGED pc
    /\ UNCHANGED <<Unwritten, opens>>

\* the with block of save_authors_to_csv is left (line 112); main ends (119)
CloseAuthors ==
    /\ pc = "authors_rows" /\ error = "none"
    /\ authors_loop_done
    /\ \E io \in Io :
         IF io = "fail"
           THEN error' = "OSError" /\ UNCHANGED pc
           ELSE pc' = "done" /\ UNCHANGED error
    /\ UNCHANGED <<fs, row>>
    /\ UNCHANGED <<Unwritten, opens>>

Next ==
    \/ FetchBase
    \/ ProcessQuote
    \/ EndPage
    \/ FetchNextPage
    \/ CrawlReturn
    \/ OpenQuotes
    \/ WriteQuotesHeader
    \/ WriteQuoteRow
    \/ CloseQuotes
    \/ OpenAuthors
    \/ WriteAuthorsHeader
    \/ WriteAuthorRow
    \/ CloseAuthors

Spec == Init /\ [][Next]_vars

\* The program is sequential and blocking: whenever a statement can run, it runs.
LiveSpec == Spec /\ WF_vars(Next)

-----------------------------------------------------------------------------
(* Vocabulary of the properties                                            *)

CrawlPcs == {"fetch_base", "walk", "loop"}
QuotesPcs == {"save_quotes", "quotes_header", "quotes_rows"}
AuthorsPcs == {"save_authors", "authors_header", "authors_rows", "done"}

\* every request so far was answered with status 200
AllOK == \A i \in DOMAIN requests_log : requests_log[i].status = 200

\* the body the code parsed for a logged request
Content(e) == IF e.status = 200 THEN Web(site)[e.url] ELSE ErrorDoc

\* the quotes processed so far, in order
Accumulated == all_quotes \o quotes_list

LinkOK(a) == a.present /\ a.has_href

PageQuotes(doc) == [i \in 1..Len(doc.quotes) |-> parse_single_quote(doc.quotes[i])]

RECURSIVE ConcatPages(_)
ConcatPages(fetches) ==
    IF fetches = <<>> THEN <<>>
    ELSE PageQuotes(Content(Head(fetches))) \o ConcatPages(Tail(fetches))

\* the urls reached from BASE_URL by following "next" links on the site
RECURSIVE ChainFrom(_, _, _)
ChainFrom(web, url, fuel) ==
    IF fuel = 0 THEN <<>>
    ELSE IF url \notin DOMAIN web \/ ~LinkOK(web[url].next) THEN <<url>>
    ELSE <<url>> \o ChainFrom(web, BASE_URL \o web[url].next.href, fuel - 1)

Chain(s) == ChainFrom(Web(s), BASE_URL, Cardinality(DOMAIN Web(s)) + 1)
Acyclic(s) == Len(Chain(s)) <= Cardinality(DOMAIN Web(s))

BioCallsFor(n) == Cardinality({i \in DOMAIN bio_calls : bio_calls[i].name = n})

-----------------------------------------------------------------------------
(* C1: across a crawl parse_author_bio is invoked at most once for every   *)
(* author name, and exactly once for the name of every quote that has been *)
(* processed, however many quotes, pages or bio links carry that name; the *)
(* number of bio requests is the number of registered names.               *)
C1_BioOncePerName ==
    /\ \A i \in DOMAIN bio_calls : BioCallsFor(bio_calls[i].name) = 1
    /\ \A i \in DOMAIN Accumulated : BioCallsFor(Accumulated[i].author) = 1
    /\ error = "none" => Len(bio_calls) = Cardinality(Keys(authors))

\* two processed quotes carry one name with different bio links, on
\* different pages, and the crawl has returned
C1_Witness ==
    /\ pc \notin CrawlPcs
    /\ \E i, j \in DOMAIN requests_log :
          /\ i < j
          /\ requests_log[i].kind = "listing" /\ requests_log[j].kind = "listing"
          /\ \E b \in DOMAIN Content(requests_log[i]).quotes,
                c \in DOMAIN Content(requests_log[j]).quotes :
                LET x == Content(requests_log[i]).quotes[b]
                    y == Content(requests_log[j]).quotes[c]
                IN x.author.text = y.author.text /\ x.a.href # y.a.href

(* C3: the quotes a crawl returns are the concatenation, in visit order,   *)
(* of the quote blocks of every listing page it parsed, each block once    *)
(* and none dropped; a page without quote blocks contributes nothing and   *)
(* does not stop the crawl.                                                *)
C3_QuotesAreConcatenation ==
    ((pc = "loop" /\ error = "none") \/ pc \notin CrawlPcs)
        => all_quotes = ConcatPages(ListingFetches)

\* a returned crawl that went through a page with no quote block and met
\* the same quote block twice
C3_Witness ==
    /\ pc \notin CrawlPcs /\ AllOK
    /\ \E i \in DOMAIN ListingFetches :
          /\ i < Len(ListingFetches)
          /\ Content(ListingFetches[i]).quotes = <<>>
    /\ \E i, j \in DOMAIN all_quotes : i # j /\ all_quotes[i] = all_quotes[j]

(* C10: every processed quote has its author name among the registry keys, *)
(* every registry key is the author name of a processed quote, keys are    *)
(* unique, and when the crawl has returned the keys are exactly the author *)
(* names of the returned quotes; a registry entry, once inserted, is never *)
(* removed or changed.                                                     *)
C10_Integrity ==
    /\ \A i \in DOMAIN Accumulated : Accumulated[i].author \in Keys(authors)
    /\ \A k \in Keys(authors) : \E i \in DOMAIN Accumulated : Accumulated[i].author = k
    /\ Cardinality(Keys(authors)) = Len(authors)
    /\ pc \notin CrawlPcs =>
          Keys(authors) = {all_quotes[i].author : i \in DOMAIN all_quotes}

C10_EntriesKept ==
    \A i \in DOMAIN authors : i \in DOMAIN authors' /\ authors'[i] = authors[i]

C10_ReferentialIntegrity == []C10_Integrity /\ [][C10_EntriesKept]_vars

\* a returned crawl with three registered authors, one of them quoted twice
C10_Witness ==
    /\ pc \notin CrawlPcs
    /\ Len(authors) >= 3
    /\ Len(all_quotes) > Len(authors)

(* C4: the crawl returns only after it has parsed a listing page without  *)
(* a "next" link, and once it has returned it requests nothing more; when  *)
(* every request was answered with status 200 the listing pages it fetched *)
(* are exactly the chain of "next" links from BASE_URL, each once and in   *)
(* chain order; and on a site whose chain ends, the crawl eventually       *)
(* returns (or stops on an error).                                         *)
C4_ReturnedAtLastPage ==
    pc \notin CrawlPcs =>
        /\ ListingFetches # <<>>
        /\ ~Content(ListingFetches[Len(ListingFetches)]).next.present
        /\ AllOK =>
              [i \in DOMAIN ListingFetches |-> ListingFetches[i].url] = Chain(site)

C4_NoFetchAfterReturn == pc \notin CrawlPcs => requests_log' = requests_log

C4_Terminates ==
    /\ []C4_ReturnedAtLastPage
    /\ [][C4_NoFetchAfterReturn]_vars
    /\ (Acyclic(site) ~> (pc \notin CrawlPcs \/ error # "none"))

\* a crawl that returned after a chain of three pages, all answered with 200
C4_Witness ==
    /\ pc \notin CrawlPcs /\ AllOK
    /\ Len(ListingFetches) = 3
    /\ Acyclic(site)

(* C5: a quote block whose author link has no href (or that has no link)   *)
(* ends the run at that block, whether or not its author is registered:    *)
(* the step that reaches it raises without any request, registry insert or *)
(* file write, no block behind it is processed, nothing runs after the     *)
(* error, and no output file is touched.                                   *)
C5_AbortsAtBlock ==
    (/\ pc = "walk" /\ error = "none" /\ idx <= Len(soup.quotes)
     /\ can_parse_quote(soup.quotes[idx])
     /\ ~LinkOK(soup.quotes[idx].a))
    => /\ error' = href_error(soup.quotes[idx].a)
       /\ UNCHANGED <<pc, idx, requests_log, bio_calls, authors, quotes_list,
                      all_quotes, fs>>

C5_NothingPastBadBlock ==
    /\ pc = "walk" =>
          \A j \in 1..(idx - 1) : j <= Len(soup.quotes) => LinkOK(soup.quotes[j].a)
    /\ (pc = "walk" /\ error \in {"KeyError", "TypeError"}) =>
          /\ fs = fs0
          /\ ~LinkOK(soup.quotes[idx].a)
          /\ Len(quotes_list) = idx - 1

C5_MissingHrefAborts ==
    /\ []C5_NothingPastBadBlock
    /\ [][C5_AbortsAtBlock]_vars
    /\ [][error = "none"]_vars

\* the run has stopped with KeyError on a block whose author was registered
\* by an earlier block, with a further page still to fetch
C5_Witness ==
    /\ pc = "walk" /\ error = "KeyError"
    /\ soup.quotes[idx].author.text \in Keys(authors)
    /\ soup.next.present
    /\ idx < Len(soup.quotes)

(* C6: a request that raises (base page, later listing page or bio page)   *)
(* is the last thing the run does: the run stops with that error inside    *)
(* the crawl and both output files are as they were; a file is touched     *)
(* only after the crawl has returned, with no raised request behind it.    *)
C6_FetchFailureWritesNothing ==
    /\ \A i \in DOMAIN requests_log :
          requests_log[i].status = 0 =>
              /\ i = Len(requests_log)
              /\ error = "ConnectionError"
              /\ pc \in CrawlPcs
              /\ fs = fs0
    /\ fs # fs0 =>
          /\ pc \notin CrawlPcs
          /\ \A i \in DOMAIN requests_log : requests_log[i].status # 0

\* a bio request raised on the second page, after quotes had been collected
C6_Witness ==
    /\ error = "ConnectionError"
    /\ requests_log[Len(requests_log)].kind = "bio"
    /\ Len(ListingFetches) >= 2
    /\ all_quotes # <<>>

(* C9: the crawl has no cycle detection.  On a site whose "next" links     *)
(* form a cycle, with every request answered 200, the crawl never returns  *)
(* and never serialises, the loop condition stays true, every revisit of a *)
(* page appends that page's quotes again, and the registry does not change *)
(* once pages are being revisited.                                         *)
Revisiting ==
    /\ pc = "walk"
    /\ \E i \in 1..(Len(ListingFetches) - 1) :
          ListingFetches[i].url = ListingFetches[Len(ListingFetches)].url

C9_NeverReturns ==
    (~Acyclic(site) /\ AllOK /\ error = "none") =>
        /\ pc \in CrawlPcs
        /\ fs = fs0
        /\ pc = "loop" => next_button_truthy

C9_RevisitAppendsOnly ==
    (~Acyclic(site) /\ AllOK /\ Revisiting) =>
        /\ authors' = authors
        /\ bio_calls' = bio_calls
        /\ pc' = "loop" => all_quotes' = all_quotes \o PageQuotes(soup)

C9_NoCycleDetection == []C9_NeverReturns /\ [][C9_RevisitAppendsOnly]_vars

\* the second pass over the cycle is complete: the quotes outnumber the
\* quote blocks of the site while the registry has its three authors
C9_Witness ==
    /\ ~Acyclic(site) /\ AllOK /\ pc = "loop"
    /\ Len(ListingFetches) >= 5
    /\ Len(all_quotes) >= 7
    /\ Len(authors) = 3

(* C2 (as claimed): after a successful run the authors file has one data  *)
(* row per distinct author of the crawled quotes, and no two rows carry    *)
(* the same author name.                                                   *)
AuthorRows == Tail(fs[OUTPUT_AUTHORS_PATH].rows)

C2_OneRowPerUniqueAuthor ==
    pc = "done" =>
        /\ Len(AuthorRows) =
              Cardinality({all_quotes[i].author : i \in DOMAIN all_quotes})
        /\ \A i, j \in DOMAIN AuthorRows :
              i # j => AuthorRows[i][1] # AuthorRows[j][1]

(* C7 (as claimed): a request that does not complete successfully, a       *)
(* response with a non-success status included, ends the run with a        *)
(* network error at once; its body is never parsed.                        *)
C7_NonSuccessIsNetworkError ==
    \A i \in DOMAIN requests_log :
        requests_log[i].status # 200 =>
            /\ i = Len(requests_log)
            /\ error = "ConnectionError"

(* C8 (as claimed): the quotes file is complete, header and every quote    *)
(* row, before the authors write begins, and stays so whatever happens     *)
(* during the authors write; while the quotes write is under way or has    *)
(* failed, the authors file is untouched.  Stated for the runs in which    *)
(* every request was answered with status 200.                             *)
RECURSIVE QuoteRows(_)
QuoteRows(quotes) ==
    IF quotes = <<>> THEN <<>>
    ELSE <<quote_row(Head(quotes))>> \o QuoteRows(Tail(quotes))

QuotesFileComplete ==
    fs[output_quotes_csv_path] =
        [exists |-> TRUE, rows |-> <<QUOTES_HEADER>> \o QuoteRows(all_quotes)]

AuthorsWriteStarted ==
    \E i \in DOMAIN opens : opens[i].by = "save_authors_to_csv"

WritesIndependent ==
    /\ pc \in AuthorsPcs => QuotesFileComplete
    /\ AuthorsWriteStarted => pc \in AuthorsPcs
    /\ pc \in QuotesPcs => ~AuthorsWriteStarted

C8_IndependentWrites == AllOK => WritesIndependent

(* C8 (amended): when the quotes path given to main is not the authors     *)
(* path, the quotes file is complete before the authors write begins and   *)
(* stays so during it, and the authors file is untouched while the quotes  *)
(* write is under way or has failed (on every run, whatever the requests   *)
(* were answered).                                                         *)
C8_IndependentWritesDistinctPaths ==
    output_quotes_csv_path # OUTPUT_AUTHORS_PATH =>
        /\ WritesIndependent
        /\ pc \in QuotesPcs => fs[OUTPUT_AUTHORS_PATH] = fs0[OUTPUT_AUTHORS_PATH]

\* the authors write failed after its first data row, behind a quotes file
\* of several rows written to another path
C8_Witness ==
    /\ output_quotes_csv_path # OUTPUT_AUTHORS_PATH
    /\ pc = "authors_rows" /\ error = "OSError"
    /\ Len(fs[OUTPUT_AUTHORS_PATH].rows) = 2
    /\ Len(authors) >= 2
    /\ Len(all_quotes) >= 3

====
